---- MODULE Spec2Model ----
(***************************************************************************)
(* Model of spy_volatility_analysis.py as main runs it: load_data, the     *)
(* year filter, calculate_returns, analyze_volatility_by_year with the     *)
(* four estimators its per-year loop calls, and the write that             *)
(* create_visualizations makes on the frame afterwards.                    *)
(*                                                                         *)
(* Numbers.  Prices are powers of two, so that ln(a / b) is an exact       *)
(* integer multiple of ln 2: a log return is held as that integer.  A      *)
(* float is held as a record [nan, num, den]: NaN, or the reduced fraction *)
(* num / den.  A volatility (a square root) is held by the square of the   *)
(* reported percentage, NaN when the radicand is negative, as np.sqrt      *)
(* returns NaN there.  The Garman-Klass square a - (2 ln 2 - 1) * b is held *)
(* by its two exact parts a and b, its sign decided by comparing the       *)
(* decimal expansions of the two sides, 30 digits deep.                    *)
(***************************************************************************)
EXTENDS Integers, Sequences, FiniteSets, TLC

VARIABLES df, input, pc, years, results

vars == <<df, input, pc, years, results>>

\* ---------------------------------------------------------------- bounds
MaxYears == 2

\* ------------------------------------------------------ program constants
FirstYear == 2015
LastYear == 2025
RollingWindow == 30
MinTradingDays == 10
AtrPeriod == 14
TradingDaysPerYear == 252
Percent == 100
\* the decimals of 2 * (2 * ln(2) - 1) = 0.772588722239781237668928485832...
TwiceGarmanKlassCo ==
    <<7, 7, 2, 5, 8, 8, 7, 2, 2, 2, 3, 9, 7, 8, 1, 2, 3, 7, 6, 6, 8, 9, 2, 8, 4,
      8, 5, 8, 3, 2>>

\* ------------------------------------------------------------ arithmetic
Abs(x) == IF x < 0 THEN -x ELSE x

RECURSIVE GCD(_, _)
GCD(a, b) == IF b = 0 THEN a ELSE GCD(b, a % b)

NaN == [nan |-> TRUE, num |-> 0, den |-> 1]

\* the float n / d (d # 0), reduced, the sign carried by num
Rat(n, d) ==
    LET g == GCD(Abs(n), Abs(d))
        s == IF d < 0 THEN -1 ELSE 1
    IN  [nan |-> FALSE, num |-> s * (n \div g), den |-> Abs(d) \div g]

Num(n) == [nan |-> FALSE, num |-> n, den |-> 1]

RatAdd(a, b) == Rat(a.num * b.den + b.num * a.den, a.den * b.den)
\* a * b, the cross factors cancelled before multiplying
RatMul(a, b) ==
    LET g1 == GCD(Abs(a.num), b.den)
        g2 == GCD(Abs(b.num), a.den)
    IN  Rat((a.num \div g1) * (b.num \div g2), (a.den \div g2) * (b.den \div g1))
RatLess(a, b) == a.num * b.den < b.num * a.den

\* log2 of a power of two
RECURSIVE Log2(_)
Log2(x) == IF x <= 1 THEN 0 ELSE 1 + Log2(x \div 2)

RECURSIVE SumSeq(_)
SumSeq(s) == IF s = <<>> THEN 0 ELSE Head(s) + SumSeq(Tail(s))

RECURSIVE RatSum(_)
RatSum(s) == IF s = <<>> THEN Num(0) ELSE RatAdd(Head(s), RatSum(Tail(s)))

\* pandas reductions skip NaN
DropNa(s) == SelectSeq(s, LAMBDA v : ~v.nan)

Range(s) == {s[i] : i \in 1..Len(s)}

\* Series.mean(): mean of the non-NaN entries, NaN when there is none
Mean(s) ==
    LET v == DropNa(s)
    IN  IF v = <<>> THEN NaN ELSE RatMul(RatSum(v), Rat(1, Len(v)))

\* Series.max() / Series.min()
SeriesMax(s) ==
    LET v == DropNa(s)
    IN  IF v = <<>> THEN NaN
        ELSE CHOOSE m \in Range(v) : \A o \in Range(v) : ~RatLess(m, o)

SeriesMin(s) ==
    LET v == DropNa(s)
    IN  IF v = <<>> THEN NaN
        ELSE CHOOSE m \in Range(v) : \A o \in Range(v) : ~RatLess(o, m)

\* Series.shift(1): entry i holds the value of row i - 1, entry 1 is NaN
Shift(col) == [i \in 1..Len(col) |-> IF i = 1 THEN NaN ELSE Num(col[i - 1])]

\* ------------------------------------------------------------ data frame
\* A frame is held by column: index (the dates), open, high, low, close,
\* and the columns the core adds.
BaseColumns == {"index", "open", "high", "low", "close"}

NRows(d) == Len(d.index)

YearOf(date) == date.year

DateLess(a, b) == a.year < b.year \/ (a.year = b.year /\ a.doy < b.doy)

MakeFrame(rows) ==
    [index |-> [i \in 1..Len(rows) |-> rows[i].date],
     open  |-> [i \in 1..Len(rows) |-> rows[i].open],
     high  |-> [i \in 1..Len(rows) |-> rows[i].high],
     low   |-> [i \in 1..Len(rows) |-> rows[i].low],
     close |-> [i \in 1..Len(rows) |-> rows[i].close]]

\* df[name] = col
SetColumn(d, name, col) ==
    [c \in DOMAIN d \cup {name} |-> IF c = name THEN col ELSE d[c]]

\* the rows idx of the frame, in that order, with every column
TakeRows(d, idx) == [c \in DOMAIN d |-> [k \in 1..Len(idx) |-> d[c][idx[k]]]]

\* -------------------------------------------------------- load_data, main
RECURSIVE SortDates(_)
SortDates(S) ==
    IF S = {} THEN <<>>
    ELSE LET m == CHOOSE x \in S : \A y \in S : ~DateLess(y, x)
         IN  <<m>> \o SortDates(S \ {m})

RECURSIVE Perms(_)
Perms(S) ==
    IF S = {} THEN {<<>>}
    ELSE UNION {{<<x>> \o p : p \in Perms(S \ {x})} : x \in S}

\* the row orders that put the dates in ascending order; rows of one date
\* in any order (the sort is not stable)
RECURSIVE AscendingOrders(_, _)
AscendingOrders(d, dates) ==
    IF dates = <<>> THEN {<<>>}
    ELSE {p \o rest :
            p \in Perms({i \in 1..NRows(d) : d.index[i] = Head(dates)}),
            rest \in AscendingOrders(d, Tail(dates))}

IsMonotonic(idx) == \A i \in 1..(Len(idx) - 1) : ~DateLess(idx[i + 1], idx[i])

\* df.sort_index(inplace=True): the frames it can leave.  An index that is
\* already non-decreasing is left as it is; duplicates are kept.
sort_index(d) ==
    IF IsMonotonic(d.index) THEN {d}
    ELSE {TakeRows(d, o) : o \in AscendingOrders(d, SortDates(Range(d.index)))}

\* df[(df.index.year >= 2015) & (df.index.year <= 2025)]
FilterYears(d) ==
    TakeRows(d, SelectSeq([i \in 1..NRows(d) |-> i],
                          LAMBDA i : /\ YearOf(d.index[i]) >= FirstYear
                                     /\ YearOf(d.index[i]) <= LastYear))

\* ----------------------------------------------------- calculate_returns
\* faulty variant: the ratio inverted, ln(close_{i-1} / close_i)
LogReturns_inverted(close) ==
    LET prev == Shift(close)
    IN  [i \in 1..Len(close) |->
            IF prev[i].nan THEN NaN ELSE Num(Log2(prev[i].num) - Log2(close[i]))]

\* np.log(df['close'] / df['close'].shift(1)), in units of ln 2
LogReturns(close) ==
    LET prev == Shift(close)
    IN  [i \in 1..Len(close) |->
            IF prev[i].nan THEN NaN ELSE Num(Log2(close[i]) - Log2(prev[i].num))]

\* faulty variant: df.dropna(inplace=True) after the assignment
calculate_returns_dropna(d) ==
    LET r == SetColumn(d, "returns", LogReturns(d.close))
    IN  TakeRows(r, SelectSeq([i \in 1..NRows(r) |-> i],
                              LAMBDA i : ~r.returns[i].nan))

\* df['returns'] = ...; return df: the column is set on the frame passed in
calculate_returns(d) == SetColumn(d, "returns", LogReturns(d.close))

\* -------------------------------------------------------------- estimators
\* v * sqrt(252), squared
Annualized(sq) == IF sq.nan THEN NaN ELSE RatMul(sq, Num(TradingDaysPerYear))

\* v * 100, squared
TimesPercentSq(sq) == IF sq.nan THEN NaN ELSE RatMul(sq, Num(Percent * Percent))

\* returns.std(): the sample variance (N - 1 denominator) of the non-NaN
\* returns, NaN with fewer than two of them.  Result: the square of the
\* volatility, in units of (ln 2)^2.
calculate_realized_volatility(returns, annualize) ==
    LET v   == DropNa(returns)
        n   == Len(v)
        s1  == SumSeq([i \in 1..n |-> v[i].num])
        s2  == SumSeq([i \in 1..n |-> v[i].num * v[i].num])
        var == IF n < 2 THEN NaN ELSE Rat(n * s2 - s1 * s1, n * (n - 1))
    IN  IF annualize THEN Annualized(var) ELSE var

\* np.log(df['high'] / df['low']) ** 2, in units of (ln 2)^2
LogRatioSq(a, b) ==
    [i \in 1..Len(a) |-> (Log2(a[i]) - Log2(b[i])) * (Log2(a[i]) - Log2(b[i]))]

\* sqrt(1 / (4 ln 2) * mean(ln(high/low)^2)).  Result: the square of the
\* volatility, in units of ln 2.
calculate_parkinson_volatility(d, annualize) ==
    LET n   == NRows(d)
        vol == IF n = 0 THEN NaN ELSE Rat(SumSeq(LogRatioSq(d.high, d.low)), 4 * n)
    IN  IF annualize THEN Annualized(vol) ELSE vol

\* r / q < 0.d_k d_{k+1} ... for the decimals d of TwiceGarmanKlassCo, by long
\* division (0 <= r < q, q below 2^31 / 10)
RECURSIVE BelowTwiceCo(_, _, _)
BelowTwiceCo(r, q, k) ==
    IF k > Len(TwiceGarmanKlassCo) THEN FALSE
    ELSE LET d == (10 * r) \div q
         IN  IF d < TwiceGarmanKlassCo[k] THEN TRUE
             ELSE IF d > TwiceGarmanKlassCo[k] THEN FALSE
             ELSE BelowTwiceCo((10 * r) % q, q, k + 1)

\* The radicand 0.5 * hl.mean() - (2 ln 2 - 1) * co.mean(), in units of
\* (ln 2)^2, for hl.sum() = shl and co.sum() = sco over n rows, is negative:
\* shl / sco < 2 * (2 ln 2 - 1)
RadicandNegative(shl, sco) ==
    /\ sco > 0
    /\ shl < sco
    /\ BelowTwiceCo(shl, sco, 1)

NaNGK == [nan |-> TRUE, hl |-> Num(0), co |-> Num(0)]

\* np.sqrt of a negative number is NaN (numpy warns, nothing is raised).
\* Result: the square of the volatility, hl - (2 ln 2 - 1) * co, in units
\* of (ln 2)^2.
calculate_garman_klass_volatility(d, annualize) ==
    LET n   == NRows(d)
        shl == SumSeq(LogRatioSq(d.high, d.low))
        sco == SumSeq(LogRatioSq(d.close, d.open))
        k   == IF annualize THEN TradingDaysPerYear ELSE 1
    IN  IF n = 0 \/ RadicandNegative(shl, sco) THEN NaNGK
        ELSE [nan |-> FALSE, hl |-> Rat(shl * k, 2 * n), co |-> Rat(sco * k, n)]

\* the Garman-Klass figure * 100, squared
GKTimesPercentSq(v) ==
    IF v.nan THEN NaNGK
    ELSE [nan |-> FALSE, hl |-> TimesPercentSq(v.hl), co |-> TimesPercentSq(v.co)]

\* DataFrame.max(axis=1): the largest non-NaN value of a row
RowMax(vals) == SeriesMax(vals)

\* pd.concat([high_low, high_close, low_close], axis=1).max(axis=1)
TrueRange(d) ==
    LET prev == Shift(d.close)
    IN  [i \in 1..NRows(d) |->
            RowMax(<<Num(d.high[i] - d.low[i]),
                     IF prev[i].nan THEN NaN ELSE Num(Abs(d.high[i] - prev[i].num)),
                     IF prev[i].nan THEN NaN ELSE Num(Abs(d.low[i] - prev[i].num))>>)]

\* faulty variant: rolling(window=period, min_periods=1)
RollingMean_partial(s, period) ==
    [i \in 1..Len(s) |->
        Mean(SubSeq(s, IF i < period THEN 1 ELSE i - period + 1, i))]

\* Series.rolling(window=period).mean(): NaN until the window holds
\* `period` non-NaN values
RollingMean(s, period) ==
    [i \in 1..Len(s) |->
        IF i < period THEN NaN
        ELSE LET w == SubSeq(s, i - period + 1, i)
             IN  IF Len(DropNa(w)) < period THEN NaN ELSE Mean(w)]

\* Series.rolling(window).std(): NaN until the window holds `window`
\* non-NaN values; the square of the figure
RollingStd(s, window) ==
    [i \in 1..Len(s) |->
        IF i < window THEN NaN
        ELSE LET w == SubSeq(s, i - window + 1, i)
             IN  IF Len(DropNa(w)) < window THEN NaN
                 ELSE calculate_realized_volatility(w, FALSE)]

\* df['returns'].rolling(window=30).std() * np.sqrt(252) * 100
RollingVol(d) ==
    LET sd == RollingStd(d.returns, RollingWindow)
    IN  [i \in 1..Len(sd) |-> TimesPercentSq(Annualized(sd[i]))]

\* the mean of the rolling ATR, in price units
calculate_atr(d, period) == Mean(RollingMean(TrueRange(d), period))

\* ------------------------------------------- analyze_volatility_by_year
\* df['year'] = df.index.year
AddYearColumn(d) ==
    SetColumn(d, "year", [i \in 1..NRows(d) |-> YearOf(d.index[i])])

RECURSIVE SortSet(_)
SortSet(S) ==
    IF S = {} THEN <<>>
    ELSE LET m == CHOOSE x \in S : \A y \in S : x <= y
         IN  <<m>> \o SortSet(S \ {m})

\* Series.unique(): the distinct values in order of first appearance
RECURSIVE Unique(_)
Unique(s) ==
    IF s = <<>> THEN <<>>
    ELSE LET init == Unique(SubSeq(s, 1, Len(s) - 1))
             last == s[Len(s)]
         IN  IF last \in Range(init) THEN init ELSE Append(init, last)

\* faulty variant: sorted(df['year'].unique(), reverse=True)
LoopYears_descending(d) ==
    LET up == SortSet(Range(Unique(d.year)))
    IN  [i \in 1..Len(up) |-> up[Len(up) + 1 - i]]

\* sorted(df['year'].unique())
LoopYears(d) == SortSet(Range(Unique(d.year)))

\* df['year'] == year: the rows of the year, in frame order
RowsOfYear(d, year) ==
    SelectSeq([i \in 1..NRows(d) |-> i], LAMBDA i : d.year[i] = year)

\* faulty variant: returns recomputed inside the year's slice
YearData_recomputed(d, year) ==
    LET idx == RowsOfYear(d, year)
        yd  == [c \in DOMAIN d |-> [k \in 1..Len(idx) |-> d[c][idx[k]]]]
    IN  calculate_returns(yd)

\* df[df['year'] == year].copy()
YearData(d, year) ==
    LET idx == RowsOfYear(d, year)
    IN  [c \in DOMAIN d |-> [k \in 1..Len(idx) |-> d[c][idx[k]]]]

\* faulty variant: len(year_data) <= 10
InsufficientData_off_by_one(year_data) == NRows(year_data) <= MinTradingDays

\* len(year_data) < 10
InsufficientData(year_data) == NRows(year_data) < MinTradingDays

\* ((high - low) / close * 100).mean()
AvgDailyRange(yd) ==
    Mean([i \in 1..NRows(yd) |->
            Rat((yd.high[i] - yd.low[i]) * Percent, yd.close[i])])

\* returns * 100
TimesPercent(v) == IF v.nan THEN NaN ELSE RatMul(v, Num(Percent))

\* faulty variant: close.iloc[-1] / close.iloc[0] * 100
AnnualReturn_no_minus_one(yd) ==
    Rat(yd.close[NRows(yd)] * Percent, yd.close[1])

\* (close.iloc[-1] / close.iloc[0] - 1) * 100
AnnualReturn(yd) ==
    Rat((yd.close[NRows(yd)] - yd.close[1]) * Percent, yd.close[1])

Metrics(year, yd) ==
    [Year                  |-> year,
     TradingDays           |-> NRows(yd),
     RealizedVolatility    |->
         TimesPercentSq(calculate_realized_volatility(yd.returns, TRUE)),
     ParkinsonVolatility   |->
         TimesPercentSq(calculate_parkinson_volatility(yd, TRUE)),
     GarmanKlassVolatility |->
         GKTimesPercentSq(calculate_garman_klass_volatility(yd, TRUE)),
     AvgDailyRange         |-> AvgDailyRange(yd),
     MaxDailyReturn        |-> TimesPercent(SeriesMax(yd.returns)),
     MinDailyReturn        |-> TimesPercent(SeriesMin(yd.returns)),
     AvgATR                |-> calculate_atr(yd, AtrPeriod),
     AnnualReturn          |-> AnnualReturn(yd)]

\* ----------------------------------------------------------------- inputs
\* open, high, low, close.  Flat and Up satisfy low <= open, close <= high;
\* Bad has open below low and close above high.
Flat == [open |-> 4, high |-> 4,  low |-> 4, close |-> 4]
Up   == [open |-> 4, high |-> 16, low |-> 4, close |-> 8]
Bad  == [open |-> 1, high |-> 2,  low |-> 2, close |-> 8]

Palette == {Flat, Up, Bad}

YearLens ==
    {MinTradingDays - 1, MinTradingDays, AtrPeriod - 1, AtrPeriod, AtrPeriod + 1}

Shapes == UNION {[1..n -> YearLens] : n \in 1..MaxYears}

WithDate(bar, year, doy) ==
    [date |-> [year |-> year, doy |-> doy], open |-> bar.open,
     high |-> bar.high, low |-> bar.low, close |-> bar.close]

RECURSIVE UniformRows(_, _, _)
UniformRows(shape, n, bar) ==
    IF n = 0 THEN <<>>
    ELSE UniformRows(shape, n - 1, bar)
         \o [d \in 1..shape[n] |-> WithDate(bar, FirstYear + n - 1, d)]

RECURSIVE Offset(_, _)
Offset(shape, y) == IF y = 1 THEN 0 ELSE Offset(shape, y - 1) + shape[y - 1]

\* the first, second and last row of every year
EdgePositions(shape) ==
    UNION {{Offset(shape, y) + 1, Offset(shape, y) + 2, Offset(shape, y) + shape[y]}
           : y \in DOMAIN shape}

Override(rows, p, bar) ==
    [rows EXCEPT ![p] = WithDate(bar, rows[p].date.year, rows[p].date.doy)]

Reverse(rows) == [i \in 1..Len(rows) |-> rows[Len(rows) + 1 - i]]

SwapEnds(rows) ==
    [rows EXCEPT ![1] = rows[Len(rows)], ![Len(rows)] = rows[1]]

DuplicateDate(rows) == [rows EXCEPT ![2].date = rows[1].date]

\* series sorted strictly ascending by date: one bar, or one bar and one
\* different bar at an edge position
SortedInputs ==
    UNION {{UniformRows(sh, Len(sh), b) : b \in Palette}
           \cup {Override(UniformRows(sh, Len(sh), b), p, o) :
                    b \in Palette, p \in EdgePositions(sh), o \in Palette}
           : sh \in Shapes}

\* series that break the order: reversed, first and last row exchanged, or
\* the second row carrying the first row's date
UnorderedInputs ==
    UNION {{Reverse(UniformRows(sh, Len(sh), b)),
            SwapEnds(UniformRows(sh, Len(sh), b)),
            DuplicateDate(UniformRows(sh, Len(sh), b))}
           : sh \in Shapes, b \in Palette}

\* 2^k
RECURSIVE Pow2(_)
Pow2(k) == IF k = 0 THEN 1 ELSE 2 * Pow2(k - 1)

\* a flat bar at price level 2^k
Level(k) ==
    [open |-> Pow2(k), high |-> Pow2(k), low |-> Pow2(k), close |-> Pow2(k)]

\* sorted series without a jump between years: year y trades flat at
\* 2^y and closes its last bar at 2^(y+1), where the next year opens
RECURSIVE StaircaseRows(_, _)
StaircaseRows(shape, n) ==
    IF n = 0 THEN <<>>
    ELSE StaircaseRows(shape, n - 1)
         \o [d \in 1..shape[n] |->
                WithDate([Level(n) EXCEPT !.close =
                             IF d = shape[n] THEN Pow2(n + 1) ELSE Pow2(n),
                                         !.high =
                             IF d = shape[n] THEN Pow2(n + 1) ELSE Pow2(n)],
                         FirstYear + n - 1, d)]

StaircaseInputs == {StaircaseRows(sh, Len(sh)) : sh \in Shapes}

ShiftYears(rows, k) ==
    [i \in 1..Len(rows) |-> [rows[i] EXCEPT !.date.year = @ + k]]

\* files that start a year before 2015, or end a year after 2025
OutOfRangeInputs ==
    UNION {{ShiftYears(UniformRows(sh, Len(sh), b), -1),
            ShiftYears(UniformRows(sh, Len(sh), b),
                       LastYear - FirstYear + 2 - Len(sh))}
           : sh \in Shapes, b \in Palette}

Inputs ==
    SortedInputs \cup StaircaseInputs \cup UnorderedInputs \cup OutOfRangeInputs

\* -------------------------------------------------------------- behaviour
\* the frame pd.read_csv returns; `input` follows df until the frame is
\* handed to calculate_returns and then keeps that frame
Init ==
    /\ \E rows \in Inputs : df = MakeFrame(rows) /\ input = MakeFrame(rows)
    /\ pc = "load"
    /\ years = <<>>
    /\ results = <<>>

\* load_data: the dates become the index and the frame is sorted by it
LoadData ==
    /\ pc = "load"
    /\ df' \in sort_index(df)
    /\ input' = df'
    /\ pc' = "filter"
    /\ UNCHANGED <<years, results>>

\* main: the filter for 2015-2025
Filter ==
    /\ pc = "filter"
    /\ df' = FilterYears(df)
    /\ input' = df'
    /\ pc' = "start"
    /\ UNCHANGED <<years, results>>

\* main: df = calculate_returns(df)
CalculateReturns ==
    /\ pc = "start"
    /\ df' = calculate_returns(df)
    /\ pc' = "analyze"
    /\ UNCHANGED <<input, years, results>>

\* analyze_volatility_by_year, up to the loop header
AnalyzeStart ==
    /\ pc = "analyze"
    /\ df' = AddYearColumn(df)
    /\ results' = <<>>
    /\ years' = LoopYears(df')
    /\ pc' = "loop"
    /\ UNCHANGED input

\* one iteration that takes `continue`
SkipYear ==
    /\ pc = "loop"
    /\ years # <<>>
    /\ InsufficientData(YearData(df, Head(years)))
    /\ years' = Tail(years)
    /\ UNCHANGED <<df, input, pc, results>>

\* one iteration that appends the year's metrics
AppendYear ==
    /\ pc = "loop"
    /\ years # <<>>
    /\ ~InsufficientData(YearData(df, Head(years)))
    /\ results' = Append(results, Metrics(Head(years), YearData(df, Head(years))))
    /\ years' = Tail(years)
    /\ UNCHANGED <<df, input, pc>>

\* return pd.DataFrame(results)
Return ==
    /\ pc = "loop"
    /\ years = <<>>
    /\ pc' = "done"
    /\ UNCHANGED <<df, input, years, results>>

\* main: print_summary_statistics, then create_visualizations, which sets
\* df['rolling_vol'] on the frame
CreateVisualizations ==
    /\ pc = "done"
    /\ results # <<>>
    /\ df' = SetColumn(df, "rolling_vol", RollingVol(df))
    /\ pc' = "end"
    /\ UNCHANGED <<input, years, results>>

\* main: print_summary_statistics on a summary without rows: the frame
\* pd.DataFrame([]) has no column, summary_df['Realized Volatility (%)']
\* raises KeyError and main ends
SummaryFails ==
    /\ pc = "done"
    /\ results = <<>>
    /\ pc' = "error"
    /\ UNCHANGED <<df, input, years, results>>

Next ==
    \/ LoadData
    \/ Filter
    \/ CalculateReturns
    \/ AnalyzeStart
    \/ SkipYear
    \/ AppendYear
    \/ Return
    \/ CreateVisualizations
    \/ SummaryFails

Spec == Init /\ [][Next]_vars

\* ------------------------------------------------- vocabulary of the claims
\* the dates are strictly ascending (sorted, no duplicate)
StrictlyAscending(idx) ==
    \A i \in 1..(Len(idx) - 1) : DateLess(idx[i], idx[i + 1])

YearsIn(frame) == {YearOf(frame.index[i]) : i \in 1..NRows(frame)}

\* the positions of the year's bars in the series, ascending
PositionsOfYear(frame, y) ==
    SelectSeq([i \in 1..NRows(frame) |-> i],
              LAMBDA i : YearOf(frame.index[i]) = y)

CountOfYear(frame, y) == Len(PositionsOfYear(frame, y))

RecordsOfYear(y) == {i \in 1..Len(results) : results[i].Year = y}

Qualifies(frame, y) == CountOfYear(frame, y) >= MinTradingDays

AllYearsQualify(frame) == \A y \in YearsIn(frame) : Qualifies(frame, y)

\* ----------------------------------------------------------------- claims

\* C1: when the call has returned, every calendar year of the series with
\* at least 10 bars has exactly one record (carrying that bar count) and a
\* year with fewer than 10 bars has none; a dropped year does not end the
\* loop, the years after it still get their record.
C1_OneRecordPerQualifyingYear ==
    pc = "done" =>
        /\ \A i \in 1..Len(results) : results[i].Year \in YearsIn(input)
        /\ \A y \in YearsIn(input) :
              IF CountOfYear(input, y) >= 10
              THEN /\ Cardinality(RecordsOfYear(y)) = 1
                   /\ \A i \in RecordsOfYear(y) :
                         results[i].TradingDays = CountOfYear(input, y)
              ELSE RecordsOfYear(y) = {}

\* a year of exactly 10 bars is reported next to a dropped year of 9 bars
C1_Witness ==
    /\ pc = "done"
    /\ \E y \in YearsIn(input) :
          CountOfYear(input, y) = 10 /\ RecordsOfYear(y) # {}
    /\ \E y \in YearsIn(input) :
          CountOfYear(input, y) = 9 /\ RecordsOfYear(y) = {}

\* C2: at every point of the construction and in the final result the
\* records are strictly ascending by Year, whatever the order of the input.
C2_ResultsAscendingByYear ==
    \A i \in 1..Len(results) : \A j \in 1..Len(results) :
        i < j => results[i].Year < results[j].Year

\* the loop has appended the records of two years
C2_Witness ==
    /\ pc = "done"
    /\ Len(results) >= 2

\* C3: a series that is not strictly ascending by date (or has a duplicate
\* date) is rejected: no returns are computed on it and no summary record
\* is produced from it.
C3_UnorderedInputRejected ==
    ~StrictlyAscending(input.index) =>
        /\ "returns" \notin DOMAIN df
        /\ results = <<>>

\* C4: a year whose Garman-Klass radicand is negative never gets a record
\* that stores NaN as its Garman-Klass volatility.
C4_NegativeRadicandSignalled ==
    \A i \in 1..Len(results) :
        LET pos == PositionsOfYear(input, results[i].Year)
            hl  == [k \in 1..Len(pos) |-> input.high[pos[k]]]
            lo  == [k \in 1..Len(pos) |-> input.low[pos[k]]]
            cl  == [k \in 1..Len(pos) |-> input.close[pos[k]]]
            op  == [k \in 1..Len(pos) |-> input.open[pos[k]]]
        IN  RadicandNegative(SumSeq(LogRatioSq(hl, lo)), SumSeq(LogRatioSq(cl, op)))
                => ~results[i].GarmanKlassVolatility.nan

\* C5: a record of a year with 10 to 13 bars carries a defined Avg ATR.
C5_ShortYearAtrDefined ==
    \A i \in 1..Len(results) :
        (results[i].TradingDays >= 10 /\ results[i].TradingDays <= 13)
            => ~results[i].AvgATR.nan

\* C6 (as claimed): the caller's series is the same object content before,
\* during and after the calls: no field added, removed or changed.
C6_SeriesUntouched == df = input

\* C6 (amended): the core keeps the caller's bars (dates, open, high, low,
\* close, row by row, in the same order) but adds fields to the caller's
\* series: 'returns' once calculate_returns has run and 'year' once
\* analyze_volatility_by_year has started, and nothing else.  (Outside the
\* core, create_visualizations later adds 'rolling_vol' in the same way.)
C6_BarsKeptColumnsAdded ==
    /\ \A c \in BaseColumns : df[c] = input[c]
    /\ DOMAIN df =
          BaseColumns
          \cup (IF pc \in {"load", "filter", "start"} THEN {} ELSE {"returns"})
          \cup (IF pc \in {"load", "filter", "start", "analyze"}
                THEN {} ELSE {"year"})
          \cup (IF pc = "end" THEN {"rolling_vol"} ELSE {})

\* both calls have returned and the caller's series carries the two new
\* fields, one entry per bar
C6_Witness ==
    /\ pc = "done"
    /\ {"returns", "year"} \subseteq DOMAIN df
    /\ Len(df.returns) = NRows(input)
    /\ Len(df.year) = NRows(input)
    /\ df # input

\* the annual-return fractions of the records, close_last / close_first - 1
AnnualReturnFractions ==
    [i \in 1..Len(results) |-> RatMul(results[i].AnnualReturn, Rat(1, 100))]

\* close of the series' last bar / close of its first bar - 1
TotalReturn ==
    Rat(input.close[NRows(input)] - input.close[1], input.close[1])

\* first close of the year of record i + 1 / last close of the year of
\* record i
BoundaryRatio(i) ==
    LET a == PositionsOfYear(input, results[i].Year)
        b == PositionsOfYear(input, results[i + 1].Year)
    IN  Rat(input.close[b[1]], input.close[a[Len(a)]])

RECURSIVE RatProduct(_)
RatProduct(s) ==
    IF s = <<>> THEN Num(1) ELSE RatMul(Head(s), RatProduct(Tail(s)))

RatAbsDiff(a, b) ==
    LET d == RatAdd(a, RatMul(b, Num(-1)))
    IN  Rat(Abs(d.num), d.den)

\* a sorted series of at least two years, each with at least 10 bars
SeveralQualifyingYears ==
    /\ pc = "done"
    /\ StrictlyAscending(input.index)
    /\ AllYearsQualify(input)
    /\ Cardinality(YearsIn(input)) >= 2

\* C7 (as claimed): over several contiguous qualifying years the per-year
\* annual returns sum to the total multi-year return, within 1e-6.
C7_AnnualReturnsSumToTotal ==
    SeveralQualifyingYears =>
        RatLess(RatAbsDiff(RatSum(AnnualReturnFractions), TotalReturn),
                Rat(1, 1000000))

\* C7 (amended): the per-year annual returns compound, and only together
\* with the moves between years: the product over the years of
\* (1 + annual return), times the product over consecutive years of
\* (first close of the later year / last close of the earlier year),
\* equals 1 + the total multi-year return.
C7_AnnualReturnsCompoundToTotal ==
    SeveralQualifyingYears =>
        RatMul(RatProduct([i \in 1..Len(results) |->
                             RatAdd(Num(1), AnnualReturnFractions[i])]),
               RatProduct([i \in 1..(Len(results) - 1) |-> BoundaryRatio(i)]))
          = RatAdd(Num(1), TotalReturn)

\* several qualifying years, one of them with a non-zero annual return
C7_Witness ==
    /\ SeveralQualifyingYears
    /\ Len(results) >= 2
    /\ \E i \in 1..Len(results) : results[i].AnnualReturn.num # 0

\* the claimed true range of the k-th bar of a window whose bars sit at the
\* positions pos of the series: high - low for the first bar, and for a
\* later bar the largest of high - low, |high - previous close| and
\* |low - previous close|, the previous close being the window's
ClaimedTrueRange(pos, k) ==
    LET hi == input.high[pos[k]]
        lo == input.low[pos[k]]
    IN  IF k = 1 THEN hi - lo
        ELSE LET pcl == input.close[pos[k - 1]]
                 cands == {hi - lo, Abs(hi - pcl), Abs(lo - pcl)}
             IN  CHOOSE m \in cands : \A o \in cands : o <= m

\* C8: the Avg ATR of a window of exactly 14 bars (period 14) is the one
\* full-window mean: the sum of the window's 14 true ranges divided by 14.
C8_FourteenBarsOneRollingMean ==
    \A i \in 1..Len(results) :
        results[i].TradingDays = 14 =>
            LET pos == PositionsOfYear(input, results[i].Year)
            IN  /\ ~results[i].AvgATR.nan
                /\ results[i].AvgATR =
                      Rat(SumSeq([k \in 1..14 |-> ClaimedTrueRange(pos, k)]), 14)

\* a 14-bar year whose true ranges are not all equal has its record
C8_Witness ==
    \E i \in 1..Len(results) :
        /\ results[i].TradingDays = 14
        /\ LET pos == PositionsOfYear(input, results[i].Year)
           IN  \E k \in 2..14 :
                  ClaimedTrueRange(pos, k) # ClaimedTrueRange(pos, 1)

\* C9: once calculate_returns has run, the series carries one return per
\* bar, aligned with the bars it was given: entry 0 is missing, and entry
\* i >= 1 is ln(close_i / close_{i-1}) of the adjacent bars.
C9_ReturnsAlignedWithBars ==
    pc \notin {"load", "filter", "start"} =>
        /\ Len(df.returns) = NRows(input)
        /\ df.index = input.index
        /\ df.close = input.close
        /\ NRows(input) >= 1 => df.returns[1].nan
        /\ \A i \in 2..NRows(input) :
              df.returns[i] = Num(Log2(input.close[i]) - Log2(input.close[i - 1]))

\* returns were computed on a series with a rise and a fall of the close
C9_Witness ==
    /\ pc = "analyze"
    /\ \E i \in 2..NRows(input) : input.close[i] > input.close[i - 1]
    /\ \E i \in 2..NRows(input) : input.close[i] < input.close[i - 1]

\* the log returns (units of ln 2) of the bars at positions pos, each
\* against the bar just before it in the whole series; none for the
\* series' first bar
ClaimedReturns(pos) ==
    LET inner == SelectSeq(pos, LAMBDA p : p > 1)
    IN  [k \in 1..Len(inner) |->
            Log2(input.close[inner[k]]) - Log2(input.close[inner[k] - 1])]

\* the mean of the rolling 14-bar means of the claimed true ranges
ClaimedAtr(pos) ==
    LET n == Len(pos)
    IN  Rat(SumSeq([w \in 1..(n - 13) |->
                      SumSeq([k \in 1..14 |-> ClaimedTrueRange(pos, w + k - 1)])]),
            14 * (n - 13))

\* the sample variance of integers, N - 1 denominator
ClaimedVariance(xs) ==
    LET n == Len(xs)
    IN  Rat(n * SumSeq([k \in 1..n |-> xs[k] * xs[k]]) - SumSeq(xs) * SumSeq(xs),
            n * (n - 1))

\* C10: for a sorted series, returns are those of the whole series: the
\* record of a year with N bars that is not the first year rests on N
\* returns, its first bar's return taken against the previous year's last
\* close (N - 1 returns for the first year of the series); the ATR is the
\* year's own: its first bar's true range is high - low.
C10_ReturnsAcrossYearsAtrWithinYear ==
    (pc = "done" /\ StrictlyAscending(input.index)) =>
        \A i \in 1..Len(results) :
            LET pos == PositionsOfYear(input, results[i].Year)
                n   == Len(pos)
                rs  == ClaimedReturns(pos)
                mx  == CHOOSE m \in Range(rs) : \A o \in Range(rs) : o <= m
                mn  == CHOOSE m \in Range(rs) : \A o \in Range(rs) : m <= o
            IN  /\ Len(rs) = IF pos[1] = 1 THEN n - 1 ELSE n
                /\ Len(DropNa([k \in 1..n |-> df.returns[pos[k]]])) = Len(rs)
                /\ results[i].MaxDailyReturn = Num(100 * mx)
                /\ results[i].MinDailyReturn = Num(100 * mn)
                /\ results[i].RealizedVolatility =
                      RatMul(ClaimedVariance(rs), Num(252 * 10000))
                /\ n >= 14 => results[i].AvgATR = ClaimedAtr(pos)

\* a later year of at least 14 bars whose first bar moved against the
\* previous year's last close, by more than its own high - low
C10_Witness ==
    /\ pc = "done"
    /\ StrictlyAscending(input.index)
    /\ \E i \in 1..Len(results) :
          LET pos == PositionsOfYear(input, results[i].Year)
          IN  /\ pos[1] > 1
              /\ Len(pos) >= 14
              /\ input.close[pos[1]] # input.close[pos[1] - 1]
              /\ Abs(input.high[pos[1]] - input.close[pos[1] - 1])
                    > input.high[pos[1]] - input.low[pos[1]]
              /\ results[i].MinDailyReturn.num < 0

====
